---------------------------- MODULE Spec2Model ----------------------------
(***************************************************************************)
(* Model of cots/__init__.py: the incremental form-response parser.        *)
(*                                                                         *)
(* One process (the __main__ block) is invoked again and again.  Each      *)
(* invocation runs App.parse(): read the response sheet, read the          *)
(* checkpoint document, slice the rows after the checkpoint, call          *)
(* COTS2021.parse_row for each of them in order, then write the            *)
(* checkpoint back.  Any exception that parse() does not catch ends the    *)
(* process.  The sheet is appended to by the form at any time.             *)
(***************************************************************************)
EXTENDS Integers, Sequences, FiniteSets, TLC

(***************************************************************************)
(* Bounds of the model.                                                    *)
(***************************************************************************)
MaxRows == 3

(***************************************************************************)
(* The literals of parse_row and the column names the builders read.       *)
(***************************************************************************)
DiscColumn == "What proposal are you planning to submit"

DiscIndividual ==
    "A proposal for an individual paper, film screening or other presentationtation"

DiscPanel == "A proposal for a paper panel"

DiscRoundtable == "A proposal for a routable"

\* A value of the discriminant cell that none of the three comparisons of
\* parse_row accepts (the correctly spelled roundtable option).
DiscOther == "A proposal for a roundtable"

\* The panel option in another letter case: equal to no literal of parse_row.
DiscLower == "a proposal for a paper panel"

Discriminants ==
    {DiscIndividual, DiscPanel, DiscRoundtable, DiscOther, DiscLower}

NameColumns == {"First name", "Last name"}

BaseColumns == {"First name", "Last name", "Email address", "Timestamp", "Affiliation"}

IndividualColumns == {"Abstract"}

PanelColumns ==
    {"Topic of the panel", "Names of the panelists",
     "Contact information of the panelists", "Abstracts"}

RoundtableColumns ==
    {"Abstract.1", "Name of the participants",
     "Contact information of the participants"}

AllColumns ==
    {DiscColumn} \cup BaseColumns \cup IndividualColumns
        \cup PanelColumns \cup RoundtableColumns

\* The headers a response sheet may come with: the full form, or the form
\* with one of its questions removed.
DroppedColumns == {"Last name", "Affiliation", "Abstract", "Abstracts", "Abstract.1"}

ColumnSets == {AllColumns} \cup {AllColumns \ {c} : c \in DroppedColumns}

\* self.config["folder_ids"], set from the environment by COTS2021.__init__.
folder_ids ==
    [k \in {"individual", "panel", "roundtable"} |->
        CASE k = "individual" -> "INDIVIDUAL_PROPOSAL_FOLDER_ID"
          [] k = "panel"      -> "PANEL_PROPOSAL_FOLDER_ID"
          [] k = "roundtable" -> "ROUNDTABLE_PROPOSAL_FOLDER_ID"]

StorageTypes == {"firebase", "file"}

\* Values of local names that are not bound (yet).
Unbound == "<unbound>"

VARIABLES
    table,              \* the response sheet: a sequence of discriminant cells
    columns,            \* the header of the response sheet
    storage_type,       \* config["working_storage"]["type"]
    doc_exists,         \* the checkpoint document exists in the store
    checkpoint,         \* the stored document's last_processed_row
    pc,                 \* position of the process
    exc,                \* the exception that ended the process, or "none"
    df,                 \* parse(): the sheet as read by read_csv
    last_processed_row, \* parse(): local
    idx,                \* parse(): the loop variable
    rows_iter,          \* parse(): what to_be_processed.iterrows() has yet to yield
    temp_open,          \* parse_row(): the NamedTemporaryFile is open
    proposal_type,      \* parse_row(): local
    parent_folder_id,   \* parse_row(): local
    document,           \* parse_row(): local (the heading of the built document)
    read_ckpt,          \* history: <<c>> once get_last_processed_row returned c
    start_ckpt,         \* history: the stored checkpoint when the run started
    visited,            \* history: the indices parse_row was called with, this run
    unmatched,          \* history: the rows no branch of parse_row matched, this run
    uploads,            \* history: the files().create calls of this run
    n_reads,            \* history: calls of get_last_processed_row, this run
    n_writes,           \* history: calls of update_last_processed_row, this run
    attempted,          \* history: rows an upload was ever issued for
    prev                \* history: how the previous run ended, and the rows
                        \* whose upload failed in a run that completed

vars ==
    <<table, columns, storage_type, doc_exists, checkpoint, pc, exc, df,
      last_processed_row,
      idx, rows_iter, temp_open, proposal_type, parent_folder_id, document, read_ckpt,
      start_ckpt, visited, unmatched, uploads, n_reads, n_writes, attempted, prev>>

sheetVars == <<table, columns, storage_type, doc_exists>>

rowVars == <<temp_open, proposal_type, parent_folder_id, document>>

Max(a, b) == IF a >= b THEN a ELSE b

Min(a, b) == IF a <= b THEN a ELSE b

NoPrev ==
    [outcome |-> "none", start |-> 0, writes |-> 0, published |-> {},
     dropped |-> {}]

\* The stored checkpoint is an index of the sheet or -1 (nothing processed).
\* While the document does not exist the variable checkpoint holds -1 and
\* nothing reads it.
Checkpoints == -1 .. MaxRows

Init ==
    /\ table \in UNION {[1..n -> Discriminants] : n \in 0..MaxRows}
    /\ columns \in ColumnSets
    /\ storage_type \in StorageTypes
    /\ doc_exists \in BOOLEAN
    /\ checkpoint \in (IF doc_exists THEN Checkpoints ELSE {-1})
    /\ pc = "idle"
    /\ exc = "none"
    /\ df = <<>>
    /\ last_processed_row = 0
    /\ idx = 0
    /\ rows_iter = <<>>
    /\ temp_open = FALSE
    /\ proposal_type = Unbound
    /\ parent_folder_id = Unbound
    /\ document = Unbound
    /\ read_ckpt = <<>>
    /\ start_ckpt = checkpoint
    /\ visited = <<>>
    /\ unmatched = {}
    /\ uploads = <<>>
    /\ n_reads = 0
    /\ n_writes = 0
    /\ attempted = {}
    /\ prev = NoPrev

\* The values the state takes.
TypeOK ==
    /\ table \in UNION {[1..n -> Discriminants] : n \in 0..MaxRows}
    /\ columns \in ColumnSets
    /\ storage_type \in StorageTypes
    /\ doc_exists \in BOOLEAN
    /\ checkpoint \in Checkpoints
    /\ pc \in {"idle", "get_last_processed_row", "loop", "classify", "save",
               "upload", "done", "aborted"}
    /\ exc \in {"none", "URLError", "StoreError", "TypeError", "KeyError",
                "UnboundLocalError", "HttpLib2Error"}
    /\ df \in UNION {[1..n -> Discriminants] : n \in 0..MaxRows}
    /\ last_processed_row \in Checkpoints
    /\ idx \in Checkpoints
    /\ rows_iter \in UNION {[1..n -> 0..MaxRows] : n \in 0..MaxRows}
    /\ temp_open \in BOOLEAN
    /\ proposal_type \in {Unbound, "individual", "panel", "roundtable"}
    /\ parent_folder_id \in
          {Unbound} \cup {folder_ids[k] : k \in DOMAIN folder_ids}
    /\ document \in
          {Unbound, "Individual/Film/Other", "Panel", "Roundtable"}
    /\ Len(read_ckpt) <= 1
    /\ start_ckpt \in Checkpoints
    /\ Len(visited) <= MaxRows
    /\ unmatched \subseteq 0..MaxRows
    /\ Len(uploads) <= MaxRows
    /\ n_reads \in 0..1
    /\ n_writes \in 0..1
    /\ attempted \subseteq 0..MaxRows
    /\ prev.outcome \in {"none", "done", "aborted"}

(***************************************************************************)
(* Pure helpers of parse() and parse_row().                                *)
(***************************************************************************)

\* The first position of a Python slice [start:] of a sequence of n items.
IlocFrom(n, start) == IF start < 0 THEN Max(n + start, 0) ELSE Min(start, n)

\* A variant that slices from the checkpoint itself (df.iloc[c:]).
ToBeProcessed_FromCheckpoint(n, c) ==
    LET first == IlocFrom(n, c)
    IN  [k \in 1 .. (n - first) |-> first + k - 1]

\* A variant that slices one row too late (df.iloc[c + 2:]).
ToBeProcessed_SkipsOne(n, c) ==
    LET first == IlocFrom(n, c + 2)
    IN  [k \in 1 .. (n - first) |-> first + k - 1]

\* parse(): the index labels of df.iloc[last_processed_row + 1:], in order.
ToBeProcessed(n, c) ==
    LET first == IlocFrom(n, c + 1)
    IN  [k \in 1 .. (n - first) |-> first + k - 1]

\* A variant whose last branch is a plain else.
Classify_ElseRoundtable(disc) ==
    IF disc = DiscIndividual THEN "individual"
    ELSE IF disc = DiscPanel THEN "panel"
    ELSE "roundtable"

\* parse_row(): the if / elif / elif chain on the discriminant cell.  With
\* no branch taken nothing is bound.
Classify(disc) ==
    IF disc = DiscIndividual THEN "individual"
    ELSE IF disc = DiscPanel THEN "panel"
    ELSE IF disc = DiscRoundtable THEN "roundtable"
    ELSE Unbound

\* parse_row(): the folder the chosen branch reads from the configuration.
FolderOf(kind) == folder_ids[kind]

\* create_*_proposal_doc: the columns the builder of a kind reads.
RequiredColumns(kind) ==
    BaseColumns \cup
        (CASE kind = "individual" -> IndividualColumns
           [] kind = "panel"      -> PanelColumns
           [] kind = "roundtable" -> RoundtableColumns)

\* create_*_proposal_doc: the heading passed to create_base_doc.
HeadingOf(kind) ==
    CASE kind = "individual" -> "Individual/Film/Other"
      [] kind = "panel"      -> "Panel"
      [] kind = "roundtable" -> "Roundtable"

\* The row of df with index label i.
RowAt(i) == df[i + 1]

\* The name cells of the sheet's rows, by row position (the same in every
\* behaviour; a row appended at position i comes with these cells).
FirstNames == <<"Ada", "Grace", "Alan", "Edsger", "Barbara">>

LastNames == <<"Lovelace", "Hopper", "Turing", "Dijkstra", "Liskov">>

FirstNameOf(i) == FirstNames[(i % Len(FirstNames)) + 1]

LastNameOf(i) == LastNames[(i % Len(LastNames)) + 1]

\* parse_row(), line 215: fullname of the row with index label i.
FullNameOf(i) == FirstNameOf(i) \o " " \o LastNameOf(i)

\* A variant that numbers the rows from 1.
GdocName_OneBased(fullname, i, kind) ==
    fullname \o " (id-" \o ToString(i + 1) \o " type-" \o kind \o ")"

\* parse_row(), line 243: f"{fullname} (id-{idx} type-{proposal_type})".
GdocName(fullname, i, kind) ==
    fullname \o " (id-" \o ToString(i) \o " type-" \o kind \o ")"

\* The rows whose upload succeeded in this run.
PublishedNow ==
    {uploads[k].idx : k \in {j \in 1..Len(uploads) : uploads[j].result = "ok"}}

\* The rows whose upload raised the HttpError that parse_row catches, this run.
FailedNow ==
    {uploads[k].idx :
        k \in {j \in 1..Len(uploads) : uploads[j].result = "HttpError"}}

(***************************************************************************)
(* The process dies with an uncaught exception: every frame is unwound,    *)
(* the with block of parse_row closes the temporary file.                  *)
(***************************************************************************)
\* A variant without the with block: only the normal path closes the file.
Raise_KeepsTempFile(e) ==
    /\ pc' = "aborted"
    /\ exc' = e
    /\ temp_open' = temp_open
    /\ proposal_type' = Unbound
    /\ parent_folder_id' = Unbound
    /\ document' = Unbound

Raise(e) ==
    /\ pc' = "aborted"
    /\ exc' = e
    /\ temp_open' = FALSE
    /\ proposal_type' = Unbound
    /\ parent_folder_id' = Unbound
    /\ document' = Unbound

(***************************************************************************)
(* The form appends a response to the sheet.                               *)
(***************************************************************************)
AppendRow ==
    /\ Len(table) < MaxRows
    /\ \E d \in Discriminants : table' = Append(table, d)
    /\ UNCHANGED <<columns, storage_type, doc_exists, checkpoint, pc, exc, df,
                   last_processed_row, idx, rows_iter, rowVars, read_ckpt,
                   start_ckpt, visited, unmatched, uploads, n_reads, n_writes, attempted,
                   prev>>

(***************************************************************************)
(* App.parse, lines 115-119: pd.read_csv of the export url.                *)
(***************************************************************************)
ReadCsv ==
    /\ pc = "idle"
    /\ df' = table
    /\ start_ckpt' = checkpoint
    /\ pc' = "get_last_processed_row"
    /\ UNCHANGED <<sheetVars, checkpoint, exc, last_processed_row, idx,
                   rows_iter, rowVars, read_ckpt, visited, unmatched, uploads, n_reads,
                   n_writes, attempted, prev>>

ReadCsvFails ==
    /\ pc = "idle"
    /\ start_ckpt' = checkpoint
    /\ Raise("URLError")
    /\ UNCHANGED <<sheetVars, checkpoint, df, last_processed_row, idx,
                   rows_iter, read_ckpt, visited, unmatched, uploads, n_reads, n_writes,
                   attempted, prev>>

(***************************************************************************)
(* App.parse, lines 120-127: read the checkpoint, slice, idx = checkpoint. *)
(* With a storage type other than "firebase" get_last_processed_row falls  *)
(* off its end and returns None, and None + 1 raises TypeError.  When the  *)
(* document does not exist its snapshot's to_dict() is None, and line 99   *)
(* subscripts it: TypeError as well.                                       *)
(***************************************************************************)
GetLastProcessedRow ==
    /\ pc = "get_last_processed_row"
    /\ n_reads' = n_reads + 1
    /\ IF storage_type = "firebase" /\ doc_exists
       THEN /\ read_ckpt' = <<checkpoint>>
            /\ last_processed_row' = checkpoint
            /\ rows_iter' = ToBeProcessed(Len(df), checkpoint)
            /\ idx' = checkpoint
            /\ pc' = "loop"
            /\ UNCHANGED <<exc, rowVars>>
       ELSE /\ Raise("TypeError")
            /\ UNCHANGED <<read_ckpt, last_processed_row, rows_iter, idx>>
    /\ UNCHANGED <<sheetVars, checkpoint, df, start_ckpt, visited, unmatched, uploads,
                   n_writes, attempted, prev>>

GetLastProcessedRowFails ==
    /\ pc = "get_last_processed_row"
    /\ storage_type = "firebase"
    /\ n_reads' = n_reads + 1
    /\ Raise("StoreError")
    /\ UNCHANGED <<sheetVars, checkpoint, df, last_processed_row, idx,
                   rows_iter, read_ckpt, start_ckpt, visited, unmatched, uploads,
                   n_writes, attempted, prev>>


(***************************************************************************)
(* App.parse, line 128-129 and parse_row, lines 215-216: the iterator      *)
(* yields the next row, parse_row is called with it, builds fullname from  *)
(* the two name cells and opens the temporary file.                        *)
(***************************************************************************)
ParseRowBegin ==
    /\ pc = "loop"
    /\ rows_iter # <<>>
    /\ idx' = Head(rows_iter)
    /\ rows_iter' = Tail(rows_iter)
    /\ visited' = Append(visited, Head(rows_iter))
    /\ IF NameColumns \subseteq columns
       THEN /\ temp_open' = TRUE
            /\ pc' = "classify"
            /\ UNCHANGED <<exc, proposal_type, parent_folder_id, document>>
       ELSE Raise("KeyError")
    /\ UNCHANGED <<sheetVars, checkpoint, df, last_processed_row, read_ckpt,
                   start_ckpt, unmatched, uploads, n_reads, n_writes,
                   attempted, prev>>

(***************************************************************************)
(* parse_row, lines 217-237: the branch on the discriminant cell binds     *)
(* parent_folder_id and proposal_type and then builds the document, which  *)
(* reads the columns of the kind.  No branch binds nothing.                *)
(***************************************************************************)
ClassifyAndBuild ==
    /\ pc = "classify"
    /\ LET kind == Classify(RowAt(idx))
       IN  IF DiscColumn \notin columns
           THEN Raise("KeyError") /\ UNCHANGED unmatched
           ELSE IF kind = Unbound
           THEN /\ pc' = "save"
                /\ unmatched' = unmatched \cup {idx}
                /\ UNCHANGED <<exc, rowVars>>
           ELSE IF RequiredColumns(kind) \subseteq columns
           THEN /\ parent_folder_id' = FolderOf(kind)
                /\ proposal_type' = kind
                /\ document' = HeadingOf(kind)
                /\ pc' = "save"
                /\ UNCHANGED <<exc, temp_open, unmatched>>
           ELSE Raise("KeyError") /\ UNCHANGED unmatched
    /\ UNCHANGED <<sheetVars, checkpoint, df, last_processed_row, idx,
                   rows_iter, read_ckpt, start_ckpt, visited, uploads, n_reads,
                   n_writes, attempted, prev>>

(***************************************************************************)
(* parse_row, lines 240-252: document.save reads the local document, which *)
(* is unbound when no branch was taken (UnboundLocalError).                *)
(***************************************************************************)
\* A variant in which document is bound before the branches, so that
\* document.save succeeds for a row no branch matched.
SaveDocument_DefaultDocument ==
    /\ pc = "save"
    /\ pc' = "upload"
    /\ UNCHANGED <<exc, rowVars>>
    /\ UNCHANGED <<sheetVars, checkpoint, df, last_processed_row, idx,
                   rows_iter, read_ckpt, start_ckpt, visited, unmatched,
                   uploads, n_reads, n_writes, attempted, prev>>

SaveDocument ==
    /\ pc = "save"
    /\ IF document = Unbound
       THEN Raise("UnboundLocalError")
       ELSE /\ pc' = "upload"
            /\ UNCHANGED <<exc, rowVars>>
    /\ UNCHANGED <<sheetVars, checkpoint, df, last_processed_row, idx,
                   rows_iter, read_ckpt, start_ckpt, visited, unmatched, uploads, n_reads,
                   n_writes, attempted, prev>>

(***************************************************************************)
(* parse_row, lines 254-264, and parse, lines 130-131: files().create(...) *)
(* .execute().  It returns, or raises HttpError (a response that is not    *)
(* 2xx), which parse_row catches and logs, or raises anything else (a      *)
(* transport error of httplib2, a credentials error), which nothing        *)
(* catches.  When parse_row returns, the with block closes the temporary   *)
(* file, parse sleeps and sets last_processed_row = idx.                   *)
(***************************************************************************)
UploadRecord(result) ==
    [idx |-> idx, type |-> proposal_type, parent |-> parent_folder_id,
     name |-> GdocName(FullNameOf(idx), idx, proposal_type),
     result |-> result]

\* A variant that forgets line 131: the watermark stays at the checkpoint read.
ParseRowReturns_NoWatermark ==
    /\ temp_open' = FALSE
    /\ proposal_type' = Unbound
    /\ parent_folder_id' = Unbound
    /\ document' = Unbound
    /\ last_processed_row' = last_processed_row
    /\ pc' = "loop"
    /\ UNCHANGED <<exc, checkpoint>>

\* A variant that stores the checkpoint after every row.
ParseRowReturns_SavesEachRow ==
    /\ temp_open' = FALSE
    /\ proposal_type' = Unbound
    /\ parent_folder_id' = Unbound
    /\ document' = Unbound
    /\ last_processed_row' = idx
    /\ checkpoint' = idx
    /\ pc' = "loop"
    /\ UNCHANGED exc

ParseRowReturns ==
    /\ temp_open' = FALSE
    /\ proposal_type' = Unbound
    /\ parent_folder_id' = Unbound
    /\ document' = Unbound
    /\ last_processed_row' = idx
    /\ pc' = "loop"
    /\ UNCHANGED <<exc, checkpoint>>

UploadOk ==
    /\ pc = "upload"
    /\ uploads' = Append(uploads, UploadRecord("ok"))
    /\ attempted' = attempted \cup {idx}
    /\ ParseRowReturns
    /\ UNCHANGED <<sheetVars, df, idx, rows_iter, read_ckpt,
                   start_ckpt, visited, unmatched, n_reads, n_writes, prev>>

UploadHttpError ==
    /\ pc = "upload"
    /\ uploads' = Append(uploads, UploadRecord("HttpError"))
    /\ attempted' = attempted \cup {idx}
    /\ ParseRowReturns
    /\ UNCHANGED <<sheetVars, df, idx, rows_iter, read_ckpt,
                   start_ckpt, visited, unmatched, n_reads, n_writes, prev>>

UploadOtherError ==
    /\ pc = "upload"
    /\ uploads' = Append(uploads, UploadRecord("HttpLib2Error"))
    /\ attempted' = attempted \cup {idx}
    /\ Raise("HttpLib2Error")
    /\ UNCHANGED <<sheetVars, checkpoint, df, last_processed_row, idx,
                   rows_iter, read_ckpt, start_ckpt, visited, unmatched, n_reads,
                   n_writes, prev>>

(***************************************************************************)
(* App.parse, line 132: the loop is over, update_last_processed_row sets   *)
(* the stored document (firebase storage only).                            *)
(***************************************************************************)
\* A variant that writes the last index of the table read.
UpdateLastProcessedRow_WritesLastIndex ==
    /\ pc = "loop"
    /\ rows_iter = <<>>
    /\ n_writes' = n_writes + 1
    /\ checkpoint' = IF storage_type = "firebase"
                     THEN Len(df) - 1 ELSE checkpoint
    /\ doc_exists' = (doc_exists \/ storage_type = "firebase")
    /\ pc' = "done"
    /\ UNCHANGED <<table, columns, storage_type, exc, df, last_processed_row,
                   idx, rows_iter, rowVars, read_ckpt, start_ckpt, visited,
                   unmatched, uploads, n_reads, attempted, prev>>

UpdateLastProcessedRow ==
    /\ pc = "loop"
    /\ rows_iter = <<>>
    /\ n_writes' = n_writes + 1
    /\ checkpoint' = IF storage_type = "firebase"
                     THEN last_processed_row ELSE checkpoint
    /\ doc_exists' = (doc_exists \/ storage_type = "firebase")
    /\ pc' = "done"
    /\ UNCHANGED <<table, columns, storage_type, exc, df, last_processed_row, idx, rows_iter,
                   rowVars, read_ckpt, start_ckpt, visited, unmatched, uploads, n_reads,
                   attempted, prev>>

\* A variant whose failed write has stored the value all the same.
UpdateLastProcessedRowFails_Stored ==
    /\ pc = "loop"
    /\ rows_iter = <<>>
    /\ storage_type = "firebase"
    /\ n_writes' = n_writes + 1
    /\ checkpoint' = last_processed_row
    /\ Raise("StoreError")
    /\ UNCHANGED <<sheetVars, df, last_processed_row, idx, rows_iter,
                   read_ckpt, start_ckpt, visited, unmatched, uploads, n_reads,
                   attempted, prev>>

UpdateLastProcessedRowFails ==
    /\ pc = "loop"
    /\ rows_iter = <<>>
    /\ storage_type = "firebase"
    /\ n_writes' = n_writes + 1
    /\ Raise("StoreError")
    /\ UNCHANGED <<sheetVars, checkpoint, df, last_processed_row, idx,
                   rows_iter, read_ckpt, start_ckpt, visited, unmatched, uploads, n_reads,
                   attempted, prev>>

(***************************************************************************)
(* The process ends (lines 267-270 return, or the exception reaches the    *)
(* top); the next invocation starts from a fresh process.                  *)
(***************************************************************************)
Exit ==
    /\ pc \in {"done", "aborted"}
    /\ prev' = [outcome |-> pc, start |-> start_ckpt, writes |-> n_writes,
                published |-> PublishedNow,
                dropped |-> prev.dropped \cup
                              (IF pc = "done" THEN FailedNow ELSE {})]
    /\ pc' = "idle"
    /\ exc' = "none"
    /\ df' = <<>>
    /\ last_processed_row' = 0
    /\ idx' = 0
    /\ rows_iter' = <<>>
    /\ read_ckpt' = <<>>
    /\ start_ckpt' = checkpoint
    /\ visited' = <<>>
    /\ unmatched' = {}
    /\ uploads' = <<>>
    /\ n_reads' = 0
    /\ n_writes' = 0
    /\ UNCHANGED <<sheetVars, checkpoint, rowVars, attempted>>

Next ==
    \/ AppendRow
    \/ ReadCsv
    \/ ReadCsvFails
    \/ GetLastProcessedRow
    \/ GetLastProcessedRowFails
    \/ ParseRowBegin
    \/ ClassifyAndBuild
    \/ SaveDocument
    \/ UploadOk
    \/ UploadHttpError
    \/ UploadOtherError
    \/ UpdateLastProcessedRow
    \/ UpdateLastProcessedRowFails
    \/ Exit

Spec == Init /\ [][Next]_vars


\* The same program started on a store that holds the no-run-yet checkpoint.
InitFresh == Init /\ checkpoint = -1

SpecFresh == InitFresh /\ [][Next]_vars

(***************************************************************************)
(* Vocabulary of the properties.                                           *)
(***************************************************************************)
Range(a, b) == [k \in 1 .. (b - a + 1) |-> a + k - 1]

SeqSet(s) == {s[k] : k \in 1..Len(s)}

RunEnded == pc \in {"done", "aborted"}

HasRead == read_ckpt # <<>>

KnownDiscriminants == {DiscIndividual, DiscPanel, DiscRoundtable}

\* The columns parse_row reads for the row with index i.
ColumnsReadFor(i) ==
    NameColumns \cup {DiscColumn} \cup
        (IF Classify(RowAt(i)) = Unbound THEN {}
         ELSE RequiredColumns(Classify(RowAt(i))))

\* The work list of the run: the rows visited and the rows still to come.
WorkList == visited \o rows_iter

(***************************************************************************)
(* C1.  In every run that read a table of N rows and a checkpoint c with   *)
(* c < N-1, parse_row is called exactly once for each index c+1 .. N-1, in *)
(* increasing order, and for no other index.                               *)
(***************************************************************************)
C1_AllNewRowsVisited ==
    (RunEnded /\ HasRead /\ read_ckpt[1] < Len(df) - 1)
        => visited = Range(read_ckpt[1] + 1, Len(df) - 1)

(***************************************************************************)
(* C2.  When the upload of row i fails, the failure does not leave         *)
(* parse_row, every later row of the table is still processed in the same  *)
(* run, and the checkpoint the run writes is N-1.                          *)
(***************************************************************************)
C2_PublishFailureIsolated ==
    RunEnded =>
        \A k \in 1..Len(uploads) :
            uploads[k].result # "ok" =>
                /\ exc # "HttpLib2Error"
                /\ \A j \in (uploads[k].idx + 1) .. (Len(df) - 1) :
                       j \in SeqSet(visited)
                /\ (pc = "done" => checkpoint = Len(df) - 1)

(***************************************************************************)
(* C3.  A row whose discriminant matches none of the three kinds does not  *)
(* end the run: the run reaches update_last_processed_row, with a value    *)
(* that includes that row's index.                                         *)
(***************************************************************************)
C3_UnmatchedRowDoesNotEndRun ==
    (RunEnded /\ unmatched # {})
        => /\ n_writes = 1
           /\ \A i \in unmatched : last_processed_row >= i

(***************************************************************************)
(* C4.  A row that lacks a column parse_row reads for it does not end the  *)
(* run: the remaining rows are processed and the run reaches the           *)
(* checkpoint write.                                                       *)
(***************************************************************************)
C4_MissingFieldDoesNotEndRun ==
    RunEnded =>
        \A k \in 1..Len(visited) :
            ~(ColumnsReadFor(visited[k]) \subseteq columns)
                => (rows_iter = <<>> /\ n_writes = 1)

(***************************************************************************)
(* C5.  In a run that reaches the checkpoint write, the checkpoint is read *)
(* once, before any row, and written once, after the last row and never    *)
(* between rows; the value written is the highest index visited (the value *)
(* read, when the run visited no row).                                     *)
(***************************************************************************)
C5_CheckpointReadOnceWrittenOnce ==
    /\ n_reads <= 1
    /\ n_writes <= 1
    /\ (visited # <<>> => n_reads = 1 /\ HasRead)
    /\ (n_writes = 1 => n_reads = 1 /\ HasRead /\ rows_iter = <<>> /\ RunEnded)
    /\ (pc # "done" => checkpoint = start_ckpt)
    /\ (pc = "done" =>
            /\ n_writes = 1
            /\ \A k \in 1..Len(visited) : visited[k] <= checkpoint
            /\ checkpoint = IF visited = <<>> THEN read_ckpt[1]
                            ELSE visited[Len(visited)])

C5_Witness ==
    /\ pc = "done"
    /\ Len(visited) >= 2
    /\ \E k \in 1..Len(uploads) : uploads[k].result = "HttpError"
    /\ checkpoint = visited[Len(visited)]
    /\ checkpoint # start_ckpt

(***************************************************************************)
(* C6.  A run that an exception ends before update_last_processed_row is   *)
(* reached leaves the stored checkpoint as it was, and the run after it    *)
(* starts again from the same index: its work list is every row from the   *)
(* original start on, rows the aborted run had published included.         *)
(***************************************************************************)
C6_AbortKeepsCheckpoint ==
    /\ (pc = "aborted" /\ n_writes = 0) => checkpoint = start_ckpt
    /\ (prev.outcome = "aborted" /\ prev.writes = 0 /\ HasRead)
          => /\ read_ckpt[1] = prev.start
             /\ WorkList = Range(prev.start + 1, Len(df) - 1)
             /\ prev.published \subseteq SeqSet(WorkList)

C6_Witness ==
    /\ prev.outcome = "aborted"
    /\ prev.writes = 0
    /\ \E i \in prev.published : i \in PublishedNow

(***************************************************************************)
(* C7.  When update_last_processed_row fails after every row was visited,  *)
(* the run ends in error with the stored checkpoint still the value c it   *)
(* read, and the run after it has every row from c+1 on its work list, so  *)
(* the rows published before are published again.                          *)
(***************************************************************************)
C7_FailedWriteKeepsCheckpoint ==
    /\ (pc = "aborted" /\ n_writes = 1)
          => /\ exc = "StoreError"
             /\ HasRead
             /\ checkpoint = read_ckpt[1]
             /\ rows_iter = <<>>
             /\ visited = Range(checkpoint + 1, Len(df) - 1)
    /\ (prev.outcome = "aborted" /\ prev.writes = 1 /\ HasRead)
          => /\ read_ckpt[1] = prev.start
             /\ WorkList = Range(prev.start + 1, Len(df) - 1)
             /\ prev.published \subseteq SeqSet(WorkList)

C7_Witness ==
    /\ prev.outcome = "aborted"
    /\ prev.writes = 1
    /\ Cardinality(prev.published) >= 2
    /\ pc = "done"
    /\ prev.published \subseteq PublishedNow

(***************************************************************************)
(* C8.  A run that reads a checkpoint c >= N-1 calls parse_row for no row, *)
(* uploads nothing and writes c back: the stored checkpoint is c in every  *)
(* state of the run, however often it is run.                              *)
(***************************************************************************)
C8_NoNewRowsIsNoOp ==
    (HasRead /\ read_ckpt[1] >= Len(df) - 1)
        => /\ visited = <<>>
           /\ uploads = <<>>
           /\ unmatched = {}
           /\ pc \in {"loop", "done", "aborted"}
           /\ checkpoint = read_ckpt[1]

C8_Witness ==
    /\ pc = "done"
    /\ HasRead
    /\ Len(df) >= 1
    /\ read_ckpt[1] = Len(df) - 1
    /\ checkpoint = read_ckpt[1]
    /\ prev.outcome = "done"
    /\ prev.start = read_ckpt[1]

(***************************************************************************)
(* C9.  Started from the no-run-yet checkpoint, in every state every row   *)
(* with index <= the stored checkpoint is a row of the table for which an  *)
(* upload was issued in some run.                                          *)
(***************************************************************************)
C9_CheckpointCoversOnlyAttemptedRows ==
    /\ checkpoint <= Len(table) - 1
    /\ \A i \in 0..checkpoint : i \in attempted

C9_Witness ==
    /\ pc = "done"
    /\ checkpoint >= 2
    /\ prev.outcome = "aborted"
    /\ prev.start < checkpoint
    /\ \E k \in 1..Len(uploads) : uploads[k].result = "HttpError"

(***************************************************************************)
(* C10.  Classification reads the discriminant cell alone: equal to one of *)
(* the three literals it gives that kind's tag and that kind's configured  *)
(* folder as the upload parent; any other string binds nothing, and the    *)
(* row fails (UnboundLocalError) without an upload.                        *)
(***************************************************************************)
C10_ClassificationByDiscriminant ==
    /\ pc \in {"save", "upload"} =>
          LET d == RowAt(idx)
          IN  /\ d = DiscIndividual =>
                    /\ proposal_type = "individual"
                    /\ parent_folder_id = folder_ids["individual"]
              /\ d = DiscPanel =>
                    /\ proposal_type = "panel"
                    /\ parent_folder_id = folder_ids["panel"]
              /\ d = DiscRoundtable =>
                    /\ proposal_type = "roundtable"
                    /\ parent_folder_id = folder_ids["roundtable"]
              /\ d \notin KnownDiscriminants =>
                    /\ pc = "save"
                    /\ proposal_type = Unbound
                    /\ parent_folder_id = Unbound
                    /\ document = Unbound
    /\ \A k \in 1..Len(uploads) :
          LET u == uploads[k]
              d == RowAt(u.idx)
          IN  /\ d \in KnownDiscriminants
              /\ d = DiscIndividual => u.type = "individual"
              /\ d = DiscPanel => u.type = "panel"
              /\ d = DiscRoundtable => u.type = "roundtable"
              /\ u.parent = folder_ids[u.type]
    /\ (exc = "UnboundLocalError") <=> (pc = "aborted" /\ idx \in unmatched)
    /\ \A i \in unmatched : RowAt(i) \notin KnownDiscriminants

C10_Witness ==
    /\ pc = "upload"
    /\ proposal_type = "panel"
    /\ parent_folder_id = "PANEL_PROPOSAL_FOLDER_ID"
    /\ \E k \in 1..Len(uploads) : uploads[k].type = "roundtable"
    /\ \E k \in 1..Len(uploads) : uploads[k].type = "individual"


(***************************************************************************)
(* C11.  get_last_processed_row returns the stored index, or the sentinel  *)
(* -1 when no checkpoint document has been stored yet, so that the first   *)
(* run ever starts at row 0 and has every row of the table on its work     *)
(* list.                                                                   *)
(***************************************************************************)
C11_ReturnsCheckpointOrSentinel ==
    (storage_type = "firebase" /\ n_reads = 1 /\ exc # "StoreError")
        => /\ HasRead
           /\ doc_exists => read_ckpt[1] = start_ckpt
           /\ ~doc_exists =>
                 /\ read_ckpt[1] = -1
                 /\ WorkList = Range(0, Len(df) - 1)


(***************************************************************************)
(* C12.  The name of every file whose upload is attempted is exactly       *)
(* "{full_name} (id-{row_index} type-{kind})": the first and last name of  *)
(* the row joined by one space, the index the loop passed for that row in  *)
(* decimal, and the tag classification chose for that row.  Index 7, kind  *)
(* panel, Ada Lovelace gives "Ada Lovelace (id-7 type-panel)".             *)
(***************************************************************************)
DecimalDigits == <<"0", "1", "2", "3", "4", "5", "6", "7", "8", "9">>

C12_UploadName ==
    /\ \A k \in 1..Len(uploads) :
          LET u == uploads[k]
          IN  /\ u.idx = visited[k]
              /\ u.name = FirstNameOf(u.idx) \o " " \o LastNameOf(u.idx)
                            \o " (id-" \o DecimalDigits[u.idx + 1]
                            \o " type-" \o Classify(RowAt(u.idx)) \o ")"
              /\ (u.idx = 0 /\ RowAt(0) = DiscPanel)
                    => u.name = "Ada Lovelace (id-0 type-panel)"
              /\ (u.idx = 1 /\ RowAt(1) = DiscRoundtable)
                    => u.name = "Grace Hopper (id-1 type-roundtable)"
    /\ pc = "upload" =>
          GdocName(FullNameOf(idx), 7, proposal_type)
              = FullNameOf(idx) \o " (id-7 type-" \o proposal_type \o ")"
    /\ GdocName("Ada Lovelace", 7, "panel") = "Ada Lovelace (id-7 type-panel)"

C12_Witness ==
    /\ Len(uploads) = 3
    /\ uploads[1].name = "Ada Lovelace (id-0 type-individual)"
    /\ uploads[2].name = "Grace Hopper (id-1 type-panel)"
    /\ uploads[3].name = "Alan Turing (id-2 type-roundtable)"
    /\ uploads[2].result = "HttpError"


(***************************************************************************)
(* The program invoked again and again on a store that holds the           *)
(* no-run-yet checkpoint, with a source and a checkpoint store that never  *)
(* fail.  The process always takes its next step and is always invoked     *)
(* again; an upload that is attempted again and again succeeds at some     *)
(* attempt.                                                                *)
(***************************************************************************)
InitLive ==
    /\ Init
    /\ storage_type = "firebase"
    /\ doc_exists
    /\ checkpoint = -1

NextLive ==
    \/ AppendRow
    \/ ReadCsv
    \/ GetLastProcessedRow
    \/ ParseRowBegin
    \/ ClassifyAndBuild
    \/ SaveDocument
    \/ UploadOk
    \/ UploadHttpError
    \/ UploadOtherError
    \/ UpdateLastProcessedRow
    \/ Exit

SpecLive ==
    InitLive /\ [][NextLive]_vars /\ WF_vars(NextLive) /\ SF_vars(UploadOk)

(***************************************************************************)
(* C13.  With a source and a checkpoint store that never fail, the stored  *)
(* checkpoint eventually is, and stays, the last index of the table,       *)
(* whatever classification, build or upload errors the rows meet.          *)
(***************************************************************************)
C13_EventuallyAllProcessed == <>[](checkpoint = Len(table) - 1)


(***************************************************************************)
(* C14.  A run that read checkpoint c calls parse_row for no row with      *)
(* index <= c and attempts at most one upload per row; so a row whose      *)
(* upload failed in a run that completed lies at or below the checkpoint   *)
(* and no later run visits it again.                                       *)
(***************************************************************************)
C14_NoRetryOfProcessedRows ==
    /\ HasRead => \A k \in 1..Len(visited) : visited[k] > read_ckpt[1]
    /\ \A j, k \in 1..Len(uploads) :
          j # k => uploads[j].idx # uploads[k].idx
    /\ \A j, k \in 1..Len(visited) : j # k => visited[j] # visited[k]
    /\ \A i \in prev.dropped :
          /\ i <= checkpoint
          /\ i \notin SeqSet(visited)

C14_Witness ==
    /\ prev.dropped # {}
    /\ prev.outcome = "done"
    /\ pc = "done"
    /\ Len(uploads) >= 1
    /\ prev.dropped \cap SeqSet(visited) = {}


(***************************************************************************)
(* C15.  The stored checkpoint never decreases: the value a run writes is  *)
(* at least the value it read, also when the table has fewer rows than the *)
(* checkpoint implies, and a run that writes nothing leaves it alone.      *)
(***************************************************************************)
C15_CheckpointNeverDecreases ==
    /\ checkpoint >= start_ckpt
    /\ HasRead => checkpoint >= read_ckpt[1]
    /\ pc = "done" =>
          /\ checkpoint = last_processed_row
          /\ last_processed_row >= read_ckpt[1]
    /\ prev.outcome # "none" => start_ckpt >= prev.start

C15_Witness ==
    /\ pc = "done"
    /\ Len(df) >= 1
    /\ read_ckpt[1] > Len(df) - 1
    /\ checkpoint = read_ckpt[1]
    /\ prev.outcome = "aborted"


(***************************************************************************)
(* C16.  files().create is issued for a row only after the row was         *)
(* classified and its document built; a row that fails classification or   *)
(* building gets no upload in that run.                                    *)
(***************************************************************************)
UploadedNow == {uploads[k].idx : k \in 1..Len(uploads)}

C16_UploadOnlyAfterBuild ==
    /\ pc = "upload" =>
          /\ proposal_type # Unbound
          /\ parent_folder_id # Unbound
          /\ document # Unbound
          /\ RowAt(idx) \in KnownDiscriminants
          /\ ColumnsReadFor(idx) \subseteq columns
    /\ \A k \in 1..Len(uploads) :
          LET u == uploads[k]
          IN  /\ u.type \in {"individual", "panel", "roundtable"}
              /\ u.parent # Unbound
              /\ u.idx \notin unmatched
              /\ ColumnsReadFor(u.idx) \subseteq columns
    /\ exc \in {"KeyError", "UnboundLocalError"} => idx \notin UploadedNow
    /\ \A k \in 1..Len(visited) :
          (\/ RowAt(visited[k]) \notin KnownDiscriminants
           \/ ~(ColumnsReadFor(visited[k]) \subseteq columns))
              => visited[k] \notin UploadedNow

C16_Witness ==
    /\ pc = "aborted"
    /\ exc = "KeyError"
    /\ Len(uploads) = 2
    /\ Len(visited) = 3
    /\ idx \notin UploadedNow


(***************************************************************************)
(* C17.  The temporary file parse_row opens is released when parse_row     *)
(* exits, by return, after a failed upload, or by an exception: it is held *)
(* exactly while a row is between classification and upload, and never at  *)
(* a row boundary or after the run.                                        *)
(***************************************************************************)
C17_TempFileReleased ==
    /\ temp_open <=> pc \in {"classify", "save", "upload"}
    /\ pc \in {"idle", "get_last_processed_row", "loop", "done", "aborted"}
          => ~temp_open

C17_Witness ==
    /\ pc = "aborted"
    /\ exc = "HttpLib2Error"
    /\ ~temp_open
    /\ Len(visited) >= 2
    /\ \E k \in 1..Len(uploads) : uploads[k].result = "HttpError"

=============================================================================
